---------------------------- MODULE Spec2Model ----------------------------
(***************************************************************************)
(* A model of the travel-listing booking backend:                          *)
(*   - BookingViewSet (src/listings/views.py): the booking admission flow  *)
(*     perform_create, and the update / partial_update / destroy handlers  *)
(*     inherited from ModelViewSet;                                        *)
(*   - ListingViewSet (src/listings/views.py): create / update /           *)
(*     partial_update / destroy of listings;                               *)
(*   - send_booking_confirmation (tasks.py): the Celery task with bounded  *)
(*     retry.                                                              *)
(*                                                                         *)
(* Dates are day numbers 1..MaxDay; NoDate stands for a value that is      *)
(* absent from the request (Python None, falsy) and for SQL NULL in a      *)
(* stored row.                                                             *)
(***************************************************************************)
EXTENDS Integers, Sequences, FiniteSets, Bags, TLC

\* ------------------------------------------------------------------ bounds
MaxDay == 3          \* dates range over 1..MaxDay
MaxBookings == 2     \* booking rows ever inserted (ids are auto-increment)
MaxListings == 2     \* listing rows ever inserted by ListingViewSet
MaxJobs == 2         \* confirmation jobs ever enqueued for the dispatcher

\* ------------------------------------------------------- program constants
\* @shared_task(bind=True, max_retries=3, ...)
max_retries == 3

\* --------------------------------------------------------------- universes
Users == {"alice", "bob"}
Staff == {"alice"}               \* users with is_staff set
Anonymous == "anonymous"         \* a request without credentials
NoUser == "none"                 \* no user field in the request body
NoDate == 0                      \* None in a request, NULL in a row
Days == 1 .. MaxDay
Workers == {"w1", "w2"}           \* request-serving workers
Titles == {"t1", "t2"}
Emails == {"alice@x", "bob@x"}

VARIABLES
    listings,        \* Listing table: id -> [owner, available, title]
    nextListingId,   \* auto-increment key of the Listing table
    bookings,        \* Booking table: set of rows [id, listing, user, check_in, check_out]
    nextBookingId,   \* auto-increment key of the Booking table
    pending,         \* bag of perform_create calls that passed line 166, before line 168
    queue,           \* broker: set of task messages [task, id, arg, retries]
    last,            \* the outcome of the handler step taken last, with the
                     \* request values the handler had read by then
    started,         \* dispatcher: booking ids for which delay() was called
    attempts,        \* dispatcher: booking id -> number of executions of the task body
    errors,          \* dispatcher: booking id -> number of logger.error records
    state            \* dispatcher: booking id -> "PENDING" | "RETRY" | "SUCCESS" | "FAILURE"

vars == <<listings, nextListingId, bookings, nextBookingId, pending, queue, last,
          started, attempts, errors, state>>

apiVars == <<listings, nextListingId, bookings, nextBookingId, pending, last>>
taskVars == <<started, attempts, errors, state>>

\* ------------------------------------------------------------------ helpers
\* Python truthiness of a request value: None (and "") are falsy.
Truthy(d) == d # NoDate

\* SQL comparison of a column with a parameter: NULL compares as unknown (no match).
SqlGt(col, x) == col # NoDate /\ col > x
SqlLt(col, x) == col # NoDate /\ col < x

\* The requests perform_create can be handed: any listing reference, dates
\* present or absent, an optional user field in the body.  When both dates
\* are present they form a proper interval.
DatePairs ==
    {p \in (Days \cup {NoDate}) \X (Days \cup {NoDate}) :
        (Truthy(p[1]) /\ Truthy(p[2])) => p[1] < p[2]}

\* `serializers` is never imported by views.py (only three serializer classes
\* are), so evaluating `serializers.ValidationError` raises NameError.
SerializersImported == FALSE
RaiseValidationError == IF SerializersImported THEN "ValidationError" ELSE "NameError"

Response(op, outcome, id, user, body_user, listing, ci, co) ==
    [op |-> op, outcome |-> outcome, id |-> id, user |-> user, body_user |-> body_user,
     listing |-> listing, check_in |-> ci, check_out |-> co]

NoResponse == Response("none", "none", 0, NoUser, NoUser, 0, NoDate, NoDate)

\* ---------------------------------------------------------- BookingViewSet
\* get_queryset: staff see every booking, others only their own.
BookingQueryset(u) ==
    IF u \in Staff THEN bookings ELSE {b \in bookings : b.user = u}

\* Variant: closed intervals (check_out__gte / check_in__lte).
OverlappingBookingsClosed(l, ci, co) ==
    {b \in bookings : b.listing = l /\ b.check_out # NoDate /\ b.check_out >= ci
                                    /\ b.check_in # NoDate /\ b.check_in <= co}

\* Booking.objects.filter(listing=listing, check_out__gt=check_in,
\*                        check_in__lt=check_out)
OverlappingBookings(l, ci, co) ==
    {b \in bookings : b.listing = l /\ SqlGt(b.check_out, ci) /\ SqlLt(b.check_in, co)}

\* Variant: `if check_in or check_out:`.
RunsOverlapCheckEither(ci, co) == Truthy(ci) \/ Truthy(co)

\* `if check_in and check_out:` -- the overlap query runs only when both are truthy.
RunsOverlapCheck(ci, co) == Truthy(ci) /\ Truthy(co)

\* Variant: Listing.objects.get(id=listing_id) in place of get_object_or_404.
ValidateWithGet(l, ci, co) ==
    IF l \notin DOMAIN listings THEN "DoesNotExist"
    ELSE IF ~listings[l].available THEN RaiseValidationError
    ELSE IF RunsOverlapCheck(ci, co) /\ OverlappingBookings(l, ci, co) # {}
         THEN RaiseValidationError
    ELSE "ok"

\* Lines 147-166 of perform_create, as the error raised or "ok".
Validate(l, ci, co) ==
    IF l \notin DOMAIN listings THEN "NotFound"                    \* get_object_or_404
    ELSE IF ~listings[l].available THEN RaiseValidationError       \* line 152
    ELSE IF RunsOverlapCheck(ci, co) /\ OverlappingBookings(l, ci, co) # {}
         THEN RaiseValidationError                                 \* line 166
    ELSE "ok"

\* What an error response of perform_create shows: check_in and check_out are
\* read from the request at lines 155-156, after the listing checks.
CreateError(l, ci, co, out) ==
    IF l \in DOMAIN listings /\ listings[l].available
    THEN Response("create", out, 0, NoUser, NoUser, l, ci, co)
    ELSE Response("create", out, 0, NoUser, NoUser, l, NoDate, NoDate)

\* Variant: serializer.save(listing=listing), the user left to the body.
SavedBookingFromBody(r, u, bu, id) ==
    [id |-> id, listing |-> r.listing, user |-> IF bu # NoUser THEN bu ELSE u,
     check_in |-> r.check_in, check_out |-> r.check_out]

\* serializer.save(user=self.request.user, listing=listing): the keyword
\* arguments override whatever the validated body carries (bu).
SavedBooking(r, u, bu, id) ==
    [id |-> id, listing |-> r.listing, user |-> u,
     check_in |-> r.check_in, check_out |-> r.check_out]

InFlight == BagCardinality(pending)

\* perform_create up to (not including) serializer.save: lines 147-166.
\* A call that passes is left in flight with the locals it has bound
\* (listing, check_in, check_out); one that fails is answered.
PerformCreateValidate(l, ci, co) ==
    /\ (nextBookingId - 1) + InFlight < MaxBookings
    /\ InFlight < Cardinality(Workers)
    /\ LET out == Validate(l, ci, co) IN
         IF out = "ok"
         THEN /\ pending' = pending (+) SetToBag({[listing |-> l, check_in |-> ci,
                                                   check_out |-> co]})
              /\ last' = Response("create", "validated", 0, NoUser, NoUser, 0,
                                  NoDate, NoDate)
         ELSE /\ last' = CreateError(l, ci, co, out)
              /\ UNCHANGED pending
    /\ UNCHANGED <<listings, nextListingId, bookings, nextBookingId, queue>>
    /\ UNCHANGED taskVars

\* Variant: check and insert in one serializable transaction -- the insert
\* is refused when the check no longer passes.
PerformCreateSaveSerialized(r, u, bu) ==
    /\ BagIn(r, pending)
    /\ pending' = pending (-) SetToBag({r})
    /\ LET out == Validate(r.listing, r.check_in, r.check_out) IN
         IF out = "ok"
         THEN /\ bookings' = bookings \cup {SavedBooking(r, u, bu, nextBookingId)}
              /\ nextBookingId' = nextBookingId + 1
              /\ last' = Response("create", "Created", nextBookingId, u, bu,
                                  r.listing, NoDate, NoDate)
         ELSE /\ last' = CreateError(r.listing, r.check_in, r.check_out, out)
              /\ UNCHANGED <<bookings, nextBookingId>>
    /\ UNCHANGED <<listings, nextListingId, queue>>
    /\ UNCHANGED taskVars

\* perform_create line 168: the insert, by the call r of user u whose body
\* carries the user field bu (request.user and the body are first read
\* here).  Nothing is enqueued.
PerformCreateSave(r, u, bu) ==
    /\ BagIn(r, pending)
    /\ pending' = pending (-) SetToBag({r})
    /\ bookings' = bookings \cup {SavedBooking(r, u, bu, nextBookingId)}
    /\ nextBookingId' = nextBookingId + 1
    /\ last' = Response("create", "Created", nextBookingId, u, bu,
                        r.listing, NoDate, NoDate)
    /\ UNCHANGED <<listings, nextListingId, queue>>
    /\ UNCHANGED taskVars

\* permission_classes = [IsAuthenticated]: a request without credentials is
\* refused before any handler code runs.
BookingNotAuthenticated(op) ==
    /\ last' = Response(op, "NotAuthenticated", 0, Anonymous, NoUser, 0, NoDate, NoDate)
    /\ UNCHANGED <<listings, nextListingId, bookings, nextBookingId, pending, queue>>
    /\ UNCHANGED taskVars

\* The listings the booking flow runs against: two that can be booked, one
\* that is marked unavailable; id 4 names no listing.
SeedListings ==
    (1 :> [owner |-> "alice", available |-> TRUE, title |-> "t1"]) @@
    (2 :> [owner |-> "bob", available |-> TRUE, title |-> "t2"]) @@
    (3 :> [owner |-> "bob", available |-> FALSE, title |-> "t1"])

ListingRefs == 1 .. 4

\* The user field a client may put in the body: none, or another user's.
BodyUsers(u) == {NoUser} \cup (Users \ {u})

BookingIds == 1 .. MaxBookings

Init ==
    /\ listings = SeedListings
    /\ nextListingId = 4
    /\ bookings = {}
    /\ nextBookingId = 1
    /\ pending = EmptyBag
    /\ queue = {}
    /\ last = NoResponse
    /\ started = {}
    /\ attempts = [b \in {} |-> 0]
    /\ errors = [b \in {} |-> 0]
    /\ state = [b \in {} |-> "PENDING"]

Create == \E l \in ListingRefs : \E p \in DatePairs : PerformCreateValidate(l, p[1], p[2])

Save ==
    \E r \in BagToSet(pending) : \E u \in Users : \E bu \in BodyUsers(u) :
        PerformCreateSave(r, u, bu)

Next == Create \/ Save

\* The booking admission flow under concurrent requests.
Spec == Init /\ [][Next]_vars

\* ------------------------------------------------- properties of admission
HasDates(b) == Truthy(b.check_in) /\ Truthy(b.check_out)

\* Half-open interval overlap of a stored booking [a,b) with [c,d).
Overlaps(b, c, d) == HasDates(b) /\ b.check_out > c /\ b.check_in < d

\* A create request answered with an error.
IsRejection(resp) ==
    resp.op = "create" /\ resp.outcome \notin {"Created", "validated", "NotAuthenticated"}

OnAvailableListing(resp) ==
    resp.listing \in DOMAIN listings /\ listings[resp.listing].available

\* The calls that passed validation in this step.
Admitted == {r \in BagToSet(pending') : CopiesIn(r, pending') > CopiesIn(r, pending)}

\* The calls that reached serializer.save in this step.
Saved == {r \in BagToSet(pending) : CopiesIn(r, pending') < CopiesIn(r, pending)}

\* C1: with both dates in the request and an available listing, perform_create
\* rejects exactly when some stored booking [a,b) of the listing has
\* b > c and a < d for the proposed [c,d); otherwise the request is admitted.
C1_RejectsIffOverlap ==
    [][ /\ (last' # last /\ IsRejection(last') /\ OnAvailableListing(last')
               /\ Truthy(last'.check_in) /\ Truthy(last'.check_out))
            => \E b \in bookings : b.listing = last'.listing
                                   /\ Overlaps(b, last'.check_in, last'.check_out)
        /\ \A r \in Admitted :
              (Truthy(r.check_in) /\ Truthy(r.check_out))
                 => ~ \E b \in bookings : b.listing = r.listing
                                          /\ Overlaps(b, r.check_in, r.check_out)
      ]_vars

\* C1 witness: a request whose check-in equals the check-out of a stored
\* booking of the same listing has just passed validation.
C1_BackToBackAdmitted ==
    /\ last.outcome = "validated"
    /\ \E r \in BagToSet(pending), b \in bookings :
          /\ b.listing = r.listing /\ HasDates(b)
          /\ Truthy(r.check_out) /\ r.check_in = b.check_out

\* C3 (as claimed): every booking persisted by perform_create has exactly one
\* send_booking_confirmation message on the broker carrying its id.
C3_OneConfirmationPerBooking ==
    \A b \in bookings :
        Cardinality({m \in queue : m.task = "send_booking_confirmation" /\ m.id = b.id}) = 1

\* C5 (as claimed): an admission attempt on an unavailable listing fails with
\* ValidationError and persists nothing.
C5_UnavailableIsValidationError ==
    [][ (last' # last /\ last'.op = "create" /\ last'.listing \in DOMAIN listings
            /\ ~listings[last'.listing].available)
          => (last'.outcome = "ValidationError" /\ bookings' = bookings
                /\ pending' = pending)
      ]_vars

\* C6: the booking a create persists carries the authenticated caller as its
\* user and the validated listing, whatever user field the body supplies.
C6_UserIsCaller ==
    last.outcome = "Created"
       => \E b \in bookings : b.id = last.id /\ b.user = last.user
                              /\ b.listing = last.listing

\* C6 witness: a booking was created from a body naming another user.
C6_BodyNamesOtherUser ==
    /\ last.outcome = "Created"
    /\ last.body_user \in Users \ {last.user}

\* C7: a create request on an existing, available listing is rejected only if
\* it carries both dates: one that omits check-in or check-out passes.
C7_MissingDateNeverRejected ==
    (IsRejection(last) /\ OnAvailableListing(last))
       => (Truthy(last.check_in) /\ Truthy(last.check_out))

\* C7 witness: a request with a date omitted has just passed validation
\* although a stored booking of the listing covers the date it does carry.
C7_AdmittedDespiteConflict ==
    /\ last.outcome = "validated"
    /\ \E r \in BagToSet(pending), b \in bookings :
          /\ b.listing = r.listing /\ HasDates(b) /\ ~HasDates(r)
          /\ \/ Truthy(r.check_in) /\ b.check_in <= r.check_in /\ r.check_in < b.check_out
             \/ Truthy(r.check_out) /\ b.check_in < r.check_out /\ r.check_out <= b.check_out

\* C9: a create that names a listing that does not exist fails with NotFound,
\* whatever dates it carries, and leaves the stored bookings unchanged; no
\* call for a missing listing passes validation.
C9_MissingListingNotFound ==
    [][ /\ (last' # last /\ IsRejection(last') /\ last'.listing \notin DOMAIN listings)
            => (last'.outcome = "NotFound" /\ bookings' = bookings /\ pending' = pending)
        /\ \A r \in Admitted : r.listing \in DOMAIN listings
      ]_vars

\* C9 witness: NotFound was answered while bookings are stored.
C9_NotFoundAnswered ==
    last.op = "create" /\ last.outcome = "NotFound" /\ bookings # {}

\* C10: the insert does not repeat the check: every call that passed
\* validation is persisted by its save step, whatever was committed since.
C10_SaveDoesNotRecheck ==
    [][ \A r \in Saved :
           /\ last'.outcome = "Created"
           /\ \E b \in bookings' \ bookings :
                 b.listing = r.listing /\ b.check_in = r.check_in
                                       /\ b.check_out = r.check_out
      ]_vars

\* C10 witness: two bookings of one listing with overlapping intervals, both
\* persisted by perform_create.
C10_OverlappingPairStored ==
    \E b \in bookings, n \in bookings :
        /\ b.id < n.id /\ b.listing = n.listing /\ HasDates(n)
        /\ Overlaps(b, n.check_in, n.check_out)

\* ------------------------------------- BookingViewSet, one request at a time
\* ModelViewSet.update (PUT): get_object over get_queryset, then
\* perform_update = serializer.save().  BookingViewSet does not override
\* perform_update, so no availability or overlap check runs.
BookingUpdate(u, id, ci, co) ==
    /\ IF \E b \in BookingQueryset(u) : b.id = id
       THEN LET b == CHOOSE x \in BookingQueryset(u) : x.id = id IN
            /\ bookings' = (bookings \ {b}) \cup
                              {[b EXCEPT !.check_in = ci, !.check_out = co]}
            /\ last' = Response("update", "OK", id, u, NoUser, 0, NoDate, NoDate)
       ELSE /\ last' = Response("update", "NotFound", id, u, NoUser, 0, NoDate, NoDate)
            /\ UNCHANGED bookings
    /\ UNCHANGED <<listings, nextListingId, nextBookingId, pending, queue>>
    /\ UNCHANGED taskVars

\* ModelViewSet.partial_update (PATCH) of one date field.
BookingPartialUpdate(u, id, field, v) ==
    /\ IF \E b \in BookingQueryset(u) : b.id = id
       THEN LET b == CHOOSE x \in BookingQueryset(u) : x.id = id
                nb == IF field = "check_in" THEN [b EXCEPT !.check_in = v]
                                            ELSE [b EXCEPT !.check_out = v]
            IN
            /\ <<nb.check_in, nb.check_out>> \in DatePairs
            /\ bookings' = (bookings \ {b}) \cup {nb}
            /\ last' = Response("partial_update", "OK", id, u, NoUser, 0, NoDate, NoDate)
       ELSE /\ last' = Response("partial_update", "NotFound", id, u, NoUser, 0,
                                NoDate, NoDate)
            /\ UNCHANGED bookings
    /\ UNCHANGED <<listings, nextListingId, nextBookingId, pending, queue>>
    /\ UNCHANGED taskVars

\* ModelViewSet.destroy (DELETE).
BookingDestroy(u, id) ==
    /\ IF \E b \in BookingQueryset(u) : b.id = id
       THEN LET b == CHOOSE x \in BookingQueryset(u) : x.id = id IN
            /\ bookings' = bookings \ {b}
            /\ last' = Response("destroy", "NoContent", id, u, NoUser, 0, NoDate, NoDate)
       ELSE /\ last' = Response("destroy", "NotFound", id, u, NoUser, 0, NoDate, NoDate)
            /\ UNCHANGED bookings
    /\ UNCHANGED <<listings, nextListingId, nextBookingId, pending, queue>>
    /\ UNCHANGED taskVars

Idle == pending = EmptyBag

SerialCreate == Idle /\ Create

SerialRefuse ==
    Idle /\ \E op \in {"create", "update", "partial_update", "destroy"} :
                BookingNotAuthenticated(op)

SerialUpdate ==
    Idle /\ \E u \in Users : \E id \in BookingIds : \E ci \in Days : \E co \in Days :
                ci < co /\ BookingUpdate(u, id, ci, co)

SerialPartialUpdate ==
    Idle /\ \E u \in Users : \E id \in BookingIds : \E f \in {"check_in", "check_out"} :
                \E v \in Days : BookingPartialUpdate(u, id, f, v)

SerialDestroy == Idle /\ \E u \in Users : \E id \in BookingIds : BookingDestroy(u, id)

NextCrud ==
    \/ SerialCreate
    \/ Save
    \/ SerialRefuse
    \/ SerialUpdate
    \/ SerialPartialUpdate
    \/ SerialDestroy

\* Every operation of BookingViewSet, each request served to completion
\* before the next one starts.
SpecCrud == Init /\ [][NextCrud]_vars

\* C2 (as claimed): no two bookings of one listing have overlapping
\* [check-in, check-out) intervals.
C2_NoOverlappingBookings ==
    \A b \in bookings, n \in bookings :
        (b.id # n.id /\ b.listing = n.listing /\ HasDates(n))
           => ~Overlaps(b, n.check_in, n.check_out)

\* ----------------------------------------------------------- ListingViewSet
NoParam == "absent"                       \* query parameter not given
AvailableParams == {NoParam, "true", "True", "false"}
OwnerParams == {NoParam} \cup Users

\* str.lower() on the values a client may send.
Lower(x) == IF x = "True" THEN "true" ELSE x

\* get_queryset: every listing, narrowed by ?available= and ?owner=.
ListingQueryset(ap, op) ==
    {l \in DOMAIN listings :
        /\ (ap # NoParam => listings[l].available = (Lower(ap) = "true"))
        /\ (op # NoParam => listings[l].owner = op)}

\* get_permissions: create, update, partial_update and destroy require
\* IsAuthenticated and nothing more.
ListingPermitted(action, u) ==
    IF action \in {"create", "update", "partial_update", "destroy"}
    THEN u # Anonymous
    ELSE TRUE

ListingDenied(action, u) ==
    /\ ~ListingPermitted(action, u)
    /\ last' = Response(action, "NotAuthenticated", 0, u, NoUser, 0, NoDate, NoDate)
    /\ UNCHANGED <<listings, nextListingId, bookings, nextBookingId, pending, queue>>
    /\ UNCHANGED taskVars

\* perform_create: serializer.save(owner=self.request.user), then
\* send_listing_notification.delay(listing.id, listing.title).
ListingCreate(u, title, available) ==
    /\ ListingPermitted("create", u)
    /\ nextListingId <= MaxListings
    /\ listings' = listings @@
                     (nextListingId :> [owner |-> u, available |-> available, title |-> title])
    /\ nextListingId' = nextListingId + 1
    /\ queue' = queue \cup {[task |-> "send_listing_notification", id |-> nextListingId,
                             arg |-> title, retries |-> 0]}
    /\ last' = Response("create", "Created", nextListingId, u, NoUser, 0, NoDate, NoDate)
    /\ UNCHANGED <<bookings, nextBookingId, pending>>
    /\ UNCHANGED taskVars

\* ModelViewSet.update (PUT) on a listing: get_object over get_queryset, then
\* serializer.save().
ListingUpdate(u, l, ap, op, title, available) ==
    /\ ListingPermitted("update", u)
    /\ IF l \in ListingQueryset(ap, op)
       THEN /\ listings' = [listings EXCEPT ![l].title = title, ![l].available = available]
            /\ last' = Response("update", "OK", l, u, NoUser, 0, NoDate, NoDate)
       ELSE /\ last' = Response("update", "NotFound", l, u, NoUser, 0, NoDate, NoDate)
            /\ UNCHANGED listings
    /\ UNCHANGED <<nextListingId, bookings, nextBookingId, pending, queue>>
    /\ UNCHANGED taskVars

\* ModelViewSet.partial_update (PATCH) of the availability flag.
ListingPartialUpdate(u, l, ap, op, available) ==
    /\ ListingPermitted("partial_update", u)
    /\ IF l \in ListingQueryset(ap, op)
       THEN /\ listings' = [listings EXCEPT ![l].available = available]
            /\ last' = Response("partial_update", "OK", l, u, NoUser, 0, NoDate, NoDate)
       ELSE /\ last' = Response("partial_update", "NotFound", l, u, NoUser, 0,
                                NoDate, NoDate)
            /\ UNCHANGED listings
    /\ UNCHANGED <<nextListingId, bookings, nextBookingId, pending, queue>>
    /\ UNCHANGED taskVars

\* ModelViewSet.destroy (DELETE) on a listing; the rows that reference the
\* listing do not outlive it.
ListingDestroy(u, l, ap, op) ==
    /\ ListingPermitted("destroy", u)
    /\ IF l \in ListingQueryset(ap, op)
       THEN /\ listings' = [x \in DOMAIN listings \ {l} |-> listings[x]]
            /\ bookings' = {b \in bookings : b.listing # l}
            /\ last' = Response("destroy", "NoContent", l, u, NoUser, 0, NoDate, NoDate)
       ELSE /\ last' = Response("destroy", "NotFound", l, u, NoUser, 0, NoDate, NoDate)
            /\ UNCHANGED <<listings, bookings>>
    /\ UNCHANGED <<nextListingId, nextBookingId, pending, queue>>
    /\ UNCHANGED taskVars

ListingIds == 1 .. MaxListings

InitListing ==
    /\ listings = [l \in {} |-> 0]
    /\ nextListingId = 1
    /\ bookings = {}
    /\ nextBookingId = 1
    /\ pending = EmptyBag
    /\ queue = {}
    /\ last = NoResponse
    /\ started = {}
    /\ attempts = [b \in {} |-> 0]
    /\ errors = [b \in {} |-> 0]
    /\ state = [b \in {} |-> "PENDING"]

Callers == Users \cup {Anonymous}

LDenied ==
    \E a \in {"create", "update", "partial_update", "destroy"} : \E u \in Callers :
        ListingDenied(a, u)

LCreate ==
    \E u \in Callers : \E t \in Titles : \E a \in BOOLEAN : ListingCreate(u, t, a)

LUpdate ==
    \E u \in Callers : \E l \in ListingIds : \E ap \in AvailableParams : \E op \in OwnerParams :
        \E t \in Titles : \E a \in BOOLEAN : ListingUpdate(u, l, ap, op, t, a)

LPartialUpdate ==
    \E u \in Callers : \E l \in ListingIds : \E ap \in AvailableParams : \E op \in OwnerParams :
        \E a \in BOOLEAN : ListingPartialUpdate(u, l, ap, op, a)

LDestroy ==
    \E u \in Callers : \E l \in ListingIds : \E ap \in AvailableParams : \E op \in OwnerParams :
        ListingDestroy(u, l, ap, op)

NextListing == LDenied \/ LCreate \/ LUpdate \/ LPartialUpdate \/ LDestroy

\* The write operations of ListingViewSet.
SpecListing == InitListing /\ [][NextListing]_vars

\* C8 (as claimed): a listing is changed or deleted only by a request of its
\* owner.
C8_OnlyOwnerChangesListing ==
    [][ \A l \in DOMAIN listings :
           (l \notin DOMAIN listings' \/ listings'[l] # listings[l])
              => last'.user = listings[l].owner
      ]_vars

\* ------------------------------------------------ send_booking_confirmation
\* Variant: give up when request.retries reaches max_retries - 1.
RetryExhaustedEarly(m) == m.retries + 1 >= max_retries

\* Task.retry: with retries = request.retries + 1, the call raises the
\* original exception instead of Retry when retries > max_retries.
RetryExhausted(m) == m.retries + 1 > max_retries

\* send_booking_confirmation.delay(booking_id, user_email, booking_details):
\* publishes the first message of a job.
Delay(b, e) ==
    /\ b \notin started
    /\ started' = started \cup {b}
    /\ queue' = queue \cup {[task |-> "send_booking_confirmation", id |-> b,
                             arg |-> e, retries |-> 0]}
    /\ attempts' = attempts @@ (b :> 0)
    /\ errors' = errors @@ (b :> 0)
    /\ state' = state @@ (b :> "PENDING")
    /\ UNCHANGED apiVars

\* One execution of the task body for message m.  delivered: the try block
\* (render_to_string, strip_tags, send_mail) completed without an exception.
Execute(m, delivered) ==
    /\ m \in queue
    /\ m.task = "send_booking_confirmation"
    /\ attempts' = [attempts EXCEPT ![m.id] = @ + 1]
    /\ IF delivered
       THEN \* logger.info(...); return
            /\ queue' = queue \ {m}
            /\ state' = [state EXCEPT ![m.id] = "SUCCESS"]
            /\ UNCHANGED errors
       ELSE \* logger.error(...); raise self.retry(exc=exc)
            /\ errors' = [errors EXCEPT ![m.id] = @ + 1]
            /\ IF RetryExhausted(m)
               THEN /\ queue' = queue \ {m}
                    /\ state' = [state EXCEPT ![m.id] = "FAILURE"]
               ELSE /\ queue' = (queue \ {m}) \cup {[m EXCEPT !.retries = @ + 1]}
                    /\ state' = [state EXCEPT ![m.id] = "RETRY"]
    /\ UNCHANGED started
    /\ UNCHANGED apiVars

JobIds == 1 .. MaxJobs

Enqueue == \E b \in JobIds : \E e \in Emails : Delay(b, e)

Run == \E m \in queue : \E d \in BOOLEAN : Execute(m, d)

NextTask == Enqueue \/ Run

\* The dispatcher: jobs are enqueued and executed by the worker.
SpecTask == Init /\ [][NextTask]_vars

MessagesOf(b) == {m \in queue : m.task = "send_booking_confirmation" /\ m.id = b}

=============================================================================
